---- MODULE Spec2Model ----
(***************************************************************************)
(* Store-data synchronisation of Via-Explorer-server: the bulk sync run    *)
(* (apiFunctions.updateAllAppsFromStore, both the setTimeout and the       *)
(* setIntervalAsync build), the on-demand refresh of get-app               *)
(* (appControllers.getAppController), the merge of store metadata into an  *)
(* app record, and the app repository (appService over the "apps" table).  *)
(***************************************************************************)
EXTENDS Integers, Sequences, FiniteSets, TLC

(***************************************************************************)
(* Bounds of the model.                                                    *)
(***************************************************************************)
\* number of app ids; the scan of the table returns them in the order 1..MaxApps
MaxApps == 2
\* batch sizes the model runs with (the source fixes batchSize at 100)
MaxBatch == 2
\* clock ticks in one minute (moment().diff(.., "minutes") truncates to minutes)
TicksPerMinute == 2
\* clock ticks in one calendar day of an Android "updated" timestamp
TicksPerDay == 2

(***************************************************************************)
(* Program constants.                                                      *)
(***************************************************************************)
\* getConfigValue("TIME_TO_UPDATE_APP_FROM_STORE_IN_MIN", 60)
DefaultTimeToUpdate == 60

AppIds == 1..MaxApps

(***************************************************************************)
(* JavaScript values.  A string is a TLA+ string and undefined is Undef;   *)
(* a string the code splits is a sequence of characters and undefined is   *)
(* UndefStr; an absent array is NoList; an absent lastStoreUpdate is 0     *)
(* (undefined and 0 are both falsy at the staleness gate); a lookup result *)
(* is <<>> for null/undefined and <<metadata>> for an object.              *)
(***************************************************************************)
Undef == "undefined"
UndefStr == <<Undef>>
NoList == <<>>
NoTime == 0
Null == <<>>
InvalidDate == -1

\* JS truthiness of a string value: undefined and "" are falsy
Truthy(v) == v \notin {Undef, ""}

(***************************************************************************)
(* String.prototype.split("T")[0]: the characters before the first "T".    *)
(***************************************************************************)
RECURSIVE SplitT0(_)
SplitT0(s) ==
  IF s = <<>> THEN <<>>
  ELSE IF Head(s) = "T" THEN <<>>
  ELSE <<Head(s)>> \o SplitT0(Tail(s))

\* new Date(ms).toISOString(): "<day>T<time of day>Z"
ToISOString(ms) == <<ToString(ms \div TicksPerDay), "T", ToString(ms % TicksPerDay), "Z">>

(***************************************************************************)
(* App records (AppType) and store metadata.                               *)
(***************************************************************************)
\* a record as add-app leaves it: no enrichment field set
NewApp(id) ==
  [id |-> id, name |-> ToString(id),
   iosAppId |-> IF id % 2 = 1 THEN "iosId" ELSE Undef,
   androidAppId |-> IF id % 3 # 0 THEN "androidId" ELSE Undef,
   city |-> "city0",
   imageUrl |-> Undef, iosLink |-> Undef, iosBundleId |-> Undef,
   iosVersion |-> Undef, iosRelease |-> UndefStr, iosScreenshots |-> NoList,
   iosCurrentVersionReleaseDate |-> UndefStr, languages |-> NoList,
   androidLink |-> Undef, androidVersion |-> Undef, androidScreenshots |-> NoList,
   androidCurrentVersionReleaseDate |-> UndefStr,
   lastStoreUpdate |-> NoTime]

\* the first result of the iTunes search, release v of the app
IosMeta(v) ==
  [artworkUrl512 |-> <<"iosArt1", "iosArt2">>[v],
   bundleId |-> "bundle",
   trackViewUrl |-> "iosUrl",
   version |-> <<"i1", "i2">>[v],
   releaseDate |-> <<"d0", "T", "t0">>,
   screenshotUrls |-> <<<<"iosShot1">>, <<"iosShot1", "iosShot2">>>>[v],
   currentVersionReleaseDate |-> <<<<"d1", "T", "t1">>, <<"d2", "T", "t2">>>>[v],
   languageCodesISO2A |-> <<"EN">>]

\* the details google-play-scraper returns, release v of the app
AndroidMeta(v) ==
  [icon |-> <<"andIcon1", "andIcon2">>[v],
   url |-> "andUrl",
   version |-> <<"a1", "a2">>[v],
   screenshots |-> <<<<"andShot1">>, <<"andShot1", "andShot2">>>>[v],
   updated |-> v * TicksPerDay + 1]

(***************************************************************************)
(* The merge of the lookups into the record.  The code assigns field by    *)
(* field inside the per-app try block, so a throwing conversion leaves the *)
(* assignments made before it: the result is the record and whether the    *)
(* block threw.                                                            *)
(***************************************************************************)
\* a variant of IosStepBulk that adds the screenshots to those the record has
IosStepBulkAppend(app, d, now) ==
  LET r1 == [app EXCEPT !.imageUrl = d.artworkUrl512,
                        !.iosBundleId = d.bundleId,
                        !.iosLink = d.trackViewUrl,
                        !.lastStoreUpdate = now,
                        !.iosVersion = d.version]
      r2 == [r1 EXCEPT !.iosRelease = SplitT0(d.releaseDate),
                       !.iosScreenshots = @ \o d.screenshotUrls]
      r3 == [r2 EXCEPT !.iosCurrentVersionReleaseDate = SplitT0(d.currentVersionReleaseDate),
                       !.languages = d.languageCodesISO2A]
  IN IF d.releaseDate = UndefStr THEN [rec |-> r1, threw |-> TRUE]
     ELSE IF d.currentVersionReleaseDate = UndefStr THEN [rec |-> r2, threw |-> TRUE]
     ELSE [rec |-> r3, threw |-> FALSE]

\* processBatch, if (appStoreData) { ... }
IosStepBulk(app, d, now) ==
  LET r1 == [app EXCEPT !.imageUrl = d.artworkUrl512,
                        !.iosBundleId = d.bundleId,
                        !.iosLink = d.trackViewUrl,
                        !.lastStoreUpdate = now,
                        !.iosVersion = d.version]
      r2 == [r1 EXCEPT !.iosRelease = SplitT0(d.releaseDate),
                       !.iosScreenshots = d.screenshotUrls]
      r3 == [r2 EXCEPT !.iosCurrentVersionReleaseDate = SplitT0(d.currentVersionReleaseDate),
                       !.languages = d.languageCodesISO2A]
  IN IF d.releaseDate = UndefStr THEN [rec |-> r1, threw |-> TRUE]
     ELSE IF d.currentVersionReleaseDate = UndefStr THEN [rec |-> r2, threw |-> TRUE]
     ELSE [rec |-> r3, threw |-> FALSE]

\* a variant of AndroidStepBulk that does not stamp lastStoreUpdate
AndroidStepBulkNoStamp(app, d, now) ==
  LET r1 == [app EXCEPT !.imageUrl = IF ~Truthy(app.imageUrl) THEN d.icon ELSE @,
                        !.androidLink = d.url,
                        !.androidVersion = d.version,
                        !.androidScreenshots = d.screenshots]
      r2 == [r1 EXCEPT !.androidCurrentVersionReleaseDate = SplitT0(ToISOString(d.updated))]
  IN IF d.updated = InvalidDate THEN [rec |-> r1, threw |-> TRUE]
     ELSE [rec |-> r2, threw |-> FALSE]

\* a variant of AndroidStepBulk that writes the icon whatever imageUrl holds
AndroidStepBulkOverwrite(app, d, now) ==
  LET r1 == [app EXCEPT !.imageUrl = d.icon,
                        !.androidLink = d.url,
                        !.androidVersion = d.version,
                        !.lastStoreUpdate = now,
                        !.androidScreenshots = d.screenshots]
      r2 == [r1 EXCEPT !.androidCurrentVersionReleaseDate = SplitT0(ToISOString(d.updated))]
  IN IF d.updated = InvalidDate THEN [rec |-> r1, threw |-> TRUE]
     ELSE [rec |-> r2, threw |-> FALSE]

\* processBatch, if (playStoreData) { ... }
AndroidStepBulk(app, d, now) ==
  LET r1 == [app EXCEPT !.imageUrl = IF ~Truthy(app.imageUrl) THEN d.icon ELSE @,
                        !.androidLink = d.url,
                        !.androidVersion = d.version,
                        !.lastStoreUpdate = now,
                        !.androidScreenshots = d.screenshots]
      r2 == [r1 EXCEPT !.androidCurrentVersionReleaseDate = SplitT0(ToISOString(d.updated))]
  IN IF d.updated = InvalidDate THEN [rec |-> r1, threw |-> TRUE]
     ELSE [rec |-> r2, threw |-> FALSE]

\* a variant of MergeBulk that stamps lastStoreUpdate before looking at the lookups
MergeBulkAlwaysStamp(app, ios, android, now) ==
  LET stamped == [app EXCEPT !.lastStoreUpdate = now]
      a == IF ios # Null THEN IosStepBulk(stamped, ios[1], now)
           ELSE [rec |-> stamped, threw |-> FALSE]
  IN IF a.threw THEN a
     ELSE IF android # Null THEN AndroidStepBulk(a.rec, android[1], now)
     ELSE a

\* processBatch of the setTimeout build: both merge blocks in sequence
MergeBulk(app, ios, android, now) ==
  LET a == IF ios # Null THEN IosStepBulk(app, ios[1], now) ELSE [rec |-> app, threw |-> FALSE]
  IN IF a.threw THEN a
     ELSE IF android # Null THEN AndroidStepBulk(a.rec, android[1], now)
     ELSE a

\* getAppController, if (appStoreData) { ... }
IosStepGet(item, d, now) ==
  LET r1 == [item EXCEPT !.imageUrl = d.artworkUrl512,
                         !.iosLink = d.trackViewUrl,
                         !.iosBundleId = d.bundleId,
                         !.lastStoreUpdate = now,
                         !.iosVersion = d.version]
      r2 == [r1 EXCEPT !.iosRelease = SplitT0(d.releaseDate),
                       !.iosScreenshots = d.screenshotUrls,
                       !.languages = d.languageCodesISO2A]
      r3 == [r2 EXCEPT !.iosCurrentVersionReleaseDate = SplitT0(d.currentVersionReleaseDate)]
  IN IF d.releaseDate = UndefStr THEN [rec |-> r1, threw |-> TRUE]
     ELSE IF d.currentVersionReleaseDate = UndefStr THEN [rec |-> r2, threw |-> TRUE]
     ELSE [rec |-> r3, threw |-> FALSE]

\* getAppController, if (playSotreData) { ... }
AndroidStepGet(item, d, now) ==
  LET r1 == [item EXCEPT !.imageUrl = IF ~Truthy(item.imageUrl) THEN d.icon ELSE @,
                         !.androidLink = d.url,
                         !.androidVersion = d.version,
                         !.lastStoreUpdate = now,
                         !.androidScreenshots = d.screenshots]
      r2 == [r1 EXCEPT !.androidCurrentVersionReleaseDate = SplitT0(ToISOString(d.updated))]
  IN IF d.updated = InvalidDate THEN [rec |-> r1, threw |-> TRUE]
     ELSE [rec |-> r2, threw |-> FALSE]

\* getAppController: both merge blocks in sequence
MergeGetApp(item, ios, android, now) ==
  LET a == IF ios # Null THEN IosStepGet(item, ios[1], now) ELSE [rec |-> item, threw |-> FALSE]
  IN IF a.threw THEN a
     ELSE IF android # Null THEN AndroidStepGet(a.rec, android[1], now)
     ELSE a

\* the setIntervalAsync build: fewer fields, the release date stored as returned
MergeInterval(app, ios, android, now) ==
  LET a == IF ios # Null
           THEN [app EXCEPT !.imageUrl = ios[1].artworkUrl512,
                            !.iosLink = ios[1].trackViewUrl,
                            !.lastStoreUpdate = now,
                            !.iosVersion = ios[1].version,
                            !.iosRelease = ios[1].releaseDate,
                            !.iosScreenshots = ios[1].screenshotUrls,
                            !.languages = ios[1].languageCodesISO2A]
           ELSE app
      b == IF android # Null
           THEN [a EXCEPT !.imageUrl = IF ~Truthy(a.imageUrl) THEN android[1].icon ELSE @,
                          !.androidLink = android[1].url,
                          !.androidVersion = android[1].version,
                          !.lastStoreUpdate = now,
                          !.androidScreenshots = android[1].screenshots]
           ELSE a
  IN [rec |-> b, threw |-> FALSE]

\* the merge of one sync pass, by the code path that runs it
Merge(kind, app, ios, android, now) ==
  CASE kind = "setTimeout" -> MergeBulk(app, ios, android, now)
    [] kind = "setIntervalAsync" -> MergeInterval(app, ios, android, now)
    [] kind = "getApp" -> MergeGetApp(app, ios, android, now)

(***************************************************************************)
(* State.                                                                  *)
(***************************************************************************)
VARIABLES
  variant,         \* the build of api.functions: "setTimeout" or "setIntervalAsync"
  batchSize,       \* const batchSize of updateAllAppsFromStore
  configurations,  \* (global as any).configurations
  repo,            \* the "apps" table: id -> record, for the ids that exist
  clock,           \* moment.now(), in ticks
  runs,            \* the bulk sync runs: closure state of updateAllAppsFromStore
  reqs,            \* the get-app requests: position and locals of getAppController
  m,               \* a merge applied on its own: inputs and results
  session,         \* req.session of the client: user and authorization
  users,           \* the "users" table: email -> item, for the emails that exist
  http,            \* the request of the client on its way through the middleware
  upd,             \* the last update-app request: its body and the status sent
  form,            \* the body handed to appValidationBodySchema.validate and the outcome
  cfg,             \* the last edit-configuration request: key, value and the status sent
  configTable,     \* the "configurations" table: name -> value, for the names that exist
  view,            \* the views of the client: the last app viewed, the apps in order of their last view, the list last read
  togs,            \* the toggle-favorite calls: position and locals of toggleUserFavorite
  adds             \* the add-app requests: position, body and status of addNewAppController

\* the state of the sync, and the state of the rest of the server
syncVars == <<variant, batchSize, repo, clock, runs, reqs, m>>
apiVars == <<upd, form, cfg, configTable, view, togs, adds>>
webVars == <<session, users, http, apiVars>>

vars == <<variant, batchSize, configurations, repo, clock, runs, reqs, m, webVars>>

\* number of bulk sync runs
MaxRuns == 1
\* number of get-app requests
MaxReqs == 1
RunIds == 1..MaxRuns
ReqIds == 1..MaxReqs

Min(a, b) == IF a < b THEN a ELSE b

(***************************************************************************)
(* Configuration.                                                          *)
(***************************************************************************)
RECURSIVE Find(_, _)
\* Array.prototype.find by name: <<item>> or <<>>
Find(cfgs, key) ==
  IF cfgs = <<>> THEN <<>>
  ELSE IF Head(cfgs).name = key THEN <<Head(cfgs)>>
  ELSE Find(Tail(cfgs), key)

getConfigValue(key, defaultValue) ==
  LET configItem == Find(configurations, key)
  IN IF configItem # <<>> THEN configItem[1].value ELSE defaultValue

(***************************************************************************)
(* The repository (appService).                                            *)
(***************************************************************************)
RECURSIVE ScanFrom(_, _)
ScanFrom(rp, i) ==
  IF i > MaxApps THEN <<>>
  ELSE (IF i \in DOMAIN rp THEN <<rp[i]>> ELSE <<>>) \o ScanFrom(rp, i + 1)

\* getAllApps: the items of the table, in the order of the scan
getAllApps(rp) == ScanFrom(rp, 1)

\* addNewApp: PutCommand, the item replaces whatever is stored under its id
addNewApp(rp, appData) ==
  [i \in (DOMAIN rp) \cup {appData.id} |-> IF i = appData.id THEN appData ELSE rp[i]]

Fields == DOMAIN NewApp(1)

\* the attributes an unmarshalled item does not carry
Absent(f) ==
  CASE f \in {"iosRelease", "iosCurrentVersionReleaseDate",
              "androidCurrentVersionReleaseDate"} -> UndefStr
    [] f \in {"iosScreenshots", "androidScreenshots", "languages"} -> NoList
    [] f = "lastStoreUpdate" -> NoTime
    [] OTHER -> Undef

\* an item that holds only its key
KeyOnly(id) == [f \in Fields |-> IF f = "id" THEN id ELSE Absent(f)]

\* a variant of UpdateItem that sets the name as well
UpdateItemWithName(stored, app) ==
  [f \in Fields |->
     IF f = "id" THEN stored[f]
     ELSE IF app[f] = Absent(f) THEN stored[f]
     ELSE app[f]]

\* one UpdateCommand of updateMultipleApps: SET every attribute of app except id and name
UpdateItem(stored, app) ==
  [f \in Fields |->
     IF f \in {"id", "name"} THEN stored[f]
     ELSE IF app[f] = Absent(f) THEN stored[f]
     ELSE app[f]]

\* updateMultipleApps([app]): the item is created when the key does not exist
updateMultipleApps(rp, app) ==
  [i \in (DOMAIN rp) \cup {app.id} |->
     IF i # app.id THEN rp[i]
     ELSE UpdateItem(IF i \in DOMAIN rp THEN rp[i] ELSE KeyOnly(i), app)]

\* the write that ends the processing of an app, by build
Persist(rp, app) ==
  IF variant = "setTimeout" THEN updateMultipleApps(rp, app) ELSE addNewApp(rp, app)

(***************************************************************************)
(* Store lookups (appService.searchAppInStore): the store answers with     *)
(* metadata, with no result, or the call fails; a failure is caught inside *)
(* searchAppInStore and becomes null.                                      *)
(***************************************************************************)
IosAnswers == {"found", "none", "error"}
AndroidAnswers == {"invalid", "none"}

searchAppInStore(store, answer) ==
  IF store = "appstore"
  THEN CASE answer = "found" -> <<IosMeta(1)>>
         [] OTHER -> Null
  ELSE CASE answer = "found" -> <<AndroidMeta(1)>>
         [] answer = "invalid" -> <<[AndroidMeta(1) EXCEPT !.updated = InvalidDate]>>
         [] OTHER -> Null

(***************************************************************************)
(* Bulk sync: apiFunctions.updateAllAppsFromStore.                         *)
(*   pc: "idle"    not started                                             *)
(*       "failed"  getAllApps threw, the run never started                 *)
(*       "armed"   a timer of the run is pending                           *)
(*       "inbatch" in the for loop of processBatch, at the app at pos      *)
(*       "done"    processBatch found an empty slice                       *)
(* Inside the loop body, phase is the await the body stands at: "ios" (the  *)
(* App Store lookup), "android" (the Play Store lookup, the App Store      *)
(* result is in ios), "write" (the write of the merged record in item),    *)
(* "hung" (a lookup that never answers).  inflight holds the calls of the  *)
(* run that were issued and have not answered.  trigger is the caller and  *)
(* resp the status the admin request was answered with (0: none).          *)
(* log, ticks, fired, lookups, writes, caught record what the run did.     *)
(* The body of one app is modelled twice: as one step (ProcessApp; the     *)
(* write of an app does not read the table) and await by await (IosAnswer, *)
(* AndroidAnswer, WriteAnswer).                                            *)
(***************************************************************************)
IdleRun ==
  [pc |-> "idle", allApps |-> <<>>, currentIndex |-> 0, pos |-> 0,
   log |-> <<>>, ticks |-> 0, fired |-> 0, lookups |-> 0, writes |-> 0, caught |-> 0,
   trigger |-> "none", resp |-> 0, phase |-> "none", inflight |-> <<>>,
   ios |-> Null, item |-> <<>>]

\* the second argument of searchAppInStore: the platform id in the setTimeout
\* build, the name of the app in the setIntervalAsync build
LookupTerm(app, store) ==
  IF variant = "setIntervalAsync" THEN app.name
  ELSE IF store = "appstore" THEN app.iosAppId
  ELSE app.androidAppId

\* a call the run has issued and awaits
LookupCall(app, store) == [id |-> app.id, op |-> store, term |-> LookupTerm(app, store)]
WriteCall(app) == [id |-> app.id, op |-> "write", term |-> ""]

\* allApps.slice(currentIndex, currentIndex + batchSize)
Slice(allApps, currentIndex) ==
  SubSeq(allApps, currentIndex + 1, Min(currentIndex + batchSize, Len(allApps)))

\* a variant of BeginBatch that reads the table again at every batch
BeginBatchRescan(run) ==
  LET fresh == [run EXCEPT !.allApps = getAllApps(repo)]
      appsToUpdate == Slice(fresh.allApps, fresh.currentIndex)
  IN IF Len(appsToUpdate) = 0
     THEN [fresh EXCEPT !.pc = "done", !.fired = @ + 1]
     ELSE [fresh EXCEPT !.pc = "inbatch", !.pos = 1, !.fired = @ + 1, !.ticks = @ + 1,
                        !.phase = "ios",
                        !.inflight = Append(@, LookupCall(appsToUpdate[1], "appstore"))]

\* processBatch up to its first await: take the slice, stop on an empty one;
\* otherwise the App Store lookup of the first app of the slice is issued
BeginBatch(run) ==
  LET appsToUpdate == Slice(run.allApps, run.currentIndex)
  IN IF Len(appsToUpdate) = 0
     THEN [run EXCEPT !.pc = "done", !.fired = @ + 1]
     ELSE [run EXCEPT !.pc = "inbatch", !.pos = 1, !.fired = @ + 1, !.ticks = @ + 1,
                      !.phase = "ios",
                      !.inflight = Append(@, LookupCall(appsToUpdate[1], "appstore"))]

\* a variant of NextApp that advances the cursor one past the batch
NextAppSkip(run) ==
  IF run.pos < Len(Slice(run.allApps, run.currentIndex))
  THEN [run EXCEPT !.pos = @ + 1, !.phase = "ios",
                   !.inflight = Append(@, LookupCall(
                                  Slice(run.allApps, run.currentIndex)[run.pos + 1],
                                  "appstore"))]
  ELSE [run EXCEPT !.pc = "armed", !.pos = 0, !.phase = "none", !.currentIndex = @ + batchSize + 1]

\* a variant of NextApp that advances the cursor by one app
NextAppByOne(run) ==
  IF run.pos < Len(Slice(run.allApps, run.currentIndex))
  THEN [run EXCEPT !.pos = @ + 1, !.phase = "ios",
                   !.inflight = Append(@, LookupCall(
                                  Slice(run.allApps, run.currentIndex)[run.pos + 1],
                                  "appstore"))]
  ELSE [run EXCEPT !.pc = "armed", !.pos = 0, !.phase = "none", !.currentIndex = @ + 1]

\* the end of the try/catch of one app: the next app of the slice (its App Store
\* lookup is issued), or the end of the batch (currentIndex += batchSize and the
\* next tick is scheduled)
NextApp(run) ==
  IF run.pos < Len(Slice(run.allApps, run.currentIndex))
  THEN [run EXCEPT !.pos = @ + 1, !.phase = "ios",
                   !.inflight = Append(@, LookupCall(
                                  Slice(run.allApps, run.currentIndex)[run.pos + 1],
                                  "appstore"))]
  ELSE [run EXCEPT !.pc = "armed", !.pos = 0, !.phase = "none", !.currentIndex = @ + batchSize]

\* a variant of updateAllAppsFromStore that takes a failed read for an empty table
updateAllAppsFromStoreNoThrow(run, readOk) ==
  LET started == [run EXCEPT !.allApps = IF readOk THEN getAllApps(repo) ELSE <<>>]
  IN IF variant = "setTimeout" THEN BeginBatch(started)
     ELSE [started EXCEPT !.pc = "armed"]

\* the call of updateAllAppsFromStore up to the point its promise settles:
\* getAllApps answers or throws; the setTimeout build then calls processBatch
\* (not awaited: it runs up to its first await), the setIntervalAsync build arms
\* the interval
updateAllAppsFromStore(run, readOk) ==
  LET started == [run EXCEPT !.allApps = getAllApps(repo)]
  IN IF ~readOk THEN [run EXCEPT !.pc = "failed"]
     ELSE IF variant = "setTimeout" THEN BeginBatch(started)
     ELSE [started EXCEPT !.pc = "armed"]

\* the cron callback calls updateAllAppsFromStore and logs how its promise settled
StartRun(r, readOk) ==
  /\ runs[r].pc = "idle"
  /\ \A q \in RunIds : q < r => runs[q].pc # "idle"
  /\ runs' = [runs EXCEPT ![r] =
                [updateAllAppsFromStore(runs[r], readOk) EXCEPT !.trigger = "cron"]]
  /\ UNCHANGED <<variant, batchSize, configurations, repo, clock, reqs, m, webVars>>

\* a variant of updateAppsFromStores that answers when the run has ended
updateAppsFromStoresAwaitRun(r, readOk) ==
  /\ runs[r].pc = "idle"
  /\ \A q \in RunIds : q < r => runs[q].pc # "idle"
  /\ LET run == updateAllAppsFromStore(runs[r], readOk)
     IN runs' = [runs EXCEPT ![r] =
                   [run EXCEPT !.trigger = "admin",
                               !.resp = IF ~readOk THEN 500
                                        ELSE IF run.pc = "done" THEN 200 ELSE 0]]
  /\ UNCHANGED <<variant, batchSize, configurations, repo, clock, reqs, m, webVars>>

\* the admin controller awaits updateAllAppsFromStore: 200 when its promise
\* resolves, 500 from the catch when it rejects
updateAppsFromStores(r, readOk) ==
  /\ runs[r].pc = "idle"
  /\ \A q \in RunIds : q < r => runs[q].pc # "idle"
  /\ runs' = [runs EXCEPT ![r] =
                [updateAllAppsFromStore(runs[r], readOk)
                   EXCEPT !.trigger = "admin", !.resp = IF readOk THEN 200 ELSE 500]]
  /\ UNCHANGED <<variant, batchSize, configurations, repo, clock, reqs, m, webVars>>

\* a variant of TimerFire whose interval also fires while the handler of the
\* previous tick is still running
TimerFireOverlap(r) ==
  /\ \/ runs[r].pc = "armed"
     \/ variant = "setIntervalAsync" /\ runs[r].pc = "inbatch"
  /\ runs' = [runs EXCEPT ![r] = BeginBatch(runs[r])]
  /\ UNCHANGED <<variant, batchSize, configurations, repo, clock, reqs, m, webVars>>

\* the timer of the run fires: setTimeout(processBatch, interval), set when the
\* batch before it has ended, or the handler of setIntervalAsync (dynamic
\* strategy: not invoked before the handler of the previous tick has settled)
TimerFire(r) ==
  /\ runs[r].pc = "armed"
  /\ runs' = [runs EXCEPT ![r] = BeginBatch(runs[r])]
  /\ UNCHANGED <<variant, batchSize, configurations, repo, clock, reqs, m, webVars>>

\* a variant of ProcessApp without the try/catch: a throw rejects processBatch,
\* which ends the loop and schedules nothing
ProcessAppNoCatch(r, iosAnswer, androidAnswer, writeOk) ==
  /\ runs[r].pc = "inbatch" /\ runs[r].phase = "ios"
  /\ LET run == runs[r]
         app == Slice(run.allApps, run.currentIndex)[run.pos]
         appStoreData == searchAppInStore("appstore", iosAnswer)
         playStoreData == searchAppInStore("playstore", androidAnswer)
         merged == Merge(variant, app, appStoreData, playStoreData, clock)
         looked == [run EXCEPT !.log = Append(@, app.id), !.lookups = @ + 2,
                               !.inflight = Tail(@)]
     IN IF ~merged.threw /\ writeOk
        THEN /\ repo' = Persist(repo, merged.rec)
             /\ runs' = [runs EXCEPT ![r] = NextApp([looked EXCEPT !.writes = @ + 1])]
        ELSE /\ repo' = repo
             /\ runs' = [runs EXCEPT ![r] =
                           [looked EXCEPT !.caught = @ + 1, !.pc = "done", !.pos = 0,
                                          !.phase = "none"]]
  /\ UNCHANGED <<variant, batchSize, configurations, clock, reqs, m, webVars>>

\* the body of the for loop for the app at pos: both lookups, the merge block and
\* the write, inside the try; whatever throws is caught by the catch of this app
ProcessApp(r, iosAnswer, androidAnswer, writeOk) ==
  /\ runs[r].pc = "inbatch" /\ runs[r].phase = "ios"
  /\ LET run == runs[r]
         app == Slice(run.allApps, run.currentIndex)[run.pos]
         appStoreData == searchAppInStore("appstore", iosAnswer)
         playStoreData == searchAppInStore("playstore", androidAnswer)
         merged == Merge(variant, app, appStoreData, playStoreData, clock)
         looked == [run EXCEPT !.log = Append(@, app.id), !.lookups = @ + 2,
                               !.inflight = Tail(@)]
     IN IF ~merged.threw /\ writeOk
        THEN /\ repo' = Persist(repo, merged.rec)
             /\ runs' = [runs EXCEPT ![r] = NextApp([looked EXCEPT !.writes = @ + 1])]
        ELSE /\ repo' = repo
             /\ runs' = [runs EXCEPT ![r] = NextApp([looked EXCEPT !.caught = @ + 1])]
  /\ UNCHANGED <<variant, batchSize, configurations, clock, reqs, m, webVars>>

(***************************************************************************)
(* The body of the for loop, await by await.                               *)
(***************************************************************************)
\* the app the loop body is at
CurrentApp(run) == Slice(run.allApps, run.currentIndex)[run.pos]

\* the App Store lookup of the current app answers (searchAppInStore returns
\* metadata or null); the Play Store lookup is issued
IosAnswer(r, iosAnswer) ==
  /\ runs[r].pc = "inbatch" /\ runs[r].phase = "ios"
  /\ LET run == runs[r]
     IN runs' = [runs EXCEPT ![r] =
                   [run EXCEPT !.ios = searchAppInStore("appstore", iosAnswer),
                               !.phase = "android",
                               !.lookups = @ + 1,
                               !.inflight = Append(Tail(@),
                                              LookupCall(CurrentApp(run), "playstore"))]]
  /\ UNCHANGED <<variant, batchSize, configurations, repo, clock, reqs, m, webVars>>

\* the Play Store lookup answers and the merge block runs: when it throws, the
\* catch of this app ends the body; otherwise the write of the record is issued
AndroidAnswer(r, androidAnswer) ==
  /\ runs[r].pc = "inbatch" /\ runs[r].phase = "android"
  /\ LET run == runs[r]
         app == CurrentApp(run)
         playStoreData == searchAppInStore("playstore", androidAnswer)
         merged == Merge(variant, app, run.ios, playStoreData, clock)
         looked == [run EXCEPT !.ios = Null, !.lookups = @ + 1, !.inflight = Tail(@)]
     IN runs' = [runs EXCEPT ![r] =
                   IF merged.threw
                   THEN NextApp([looked EXCEPT !.log = Append(@, app.id),
                                               !.caught = @ + 1])
                   ELSE [looked EXCEPT !.phase = "write", !.item = <<merged.rec>>,
                                       !.inflight = Append(@, WriteCall(app))]]
  /\ UNCHANGED <<variant, batchSize, configurations, repo, clock, reqs, m, webVars>>

\* a variant of WriteAnswer in which a rejected write has stored the record
WriteAnswerApplied(r, writeOk) ==
  /\ runs[r].pc = "inbatch" /\ runs[r].phase = "write"
  /\ LET run == runs[r]
         wrote == [run EXCEPT !.log = Append(@, run.item[1].id), !.item = <<>>,
                              !.inflight = Tail(@)]
     IN /\ repo' = Persist(repo, run.item[1])
        /\ runs' = [runs EXCEPT ![r] =
                      IF writeOk THEN NextApp([wrote EXCEPT !.writes = @ + 1])
                      ELSE NextApp([wrote EXCEPT !.caught = @ + 1])]
  /\ UNCHANGED <<variant, batchSize, configurations, clock, reqs, m, webVars>>

\* the write of the merged record answers: the table holds the record, or the
\* write was rejected and the catch of this app ends the body
WriteAnswer(r, writeOk) ==
  /\ runs[r].pc = "inbatch" /\ runs[r].phase = "write"
  /\ LET run == runs[r]
         wrote == [run EXCEPT !.log = Append(@, run.item[1].id), !.item = <<>>,
                              !.inflight = Tail(@)]
     IN IF writeOk
        THEN /\ repo' = Persist(repo, run.item[1])
             /\ runs' = [runs EXCEPT ![r] = NextApp([wrote EXCEPT !.writes = @ + 1])]
        ELSE /\ repo' = repo
             /\ runs' = [runs EXCEPT ![r] = NextApp([wrote EXCEPT !.caught = @ + 1])]
  /\ UNCHANGED <<variant, batchSize, configurations, clock, reqs, m, webVars>>

\* the store never answers the lookup the body awaits (axios.get and
\* google-play-scraper are called without a timeout): the await never returns
LookupHangs(r) ==
  /\ runs[r].pc = "inbatch" /\ runs[r].phase \in {"ios", "android"}
  /\ runs' = [runs EXCEPT ![r] = [runs[r] EXCEPT !.phase = "hung"]]
  /\ UNCHANGED <<variant, batchSize, configurations, repo, clock, reqs, m, webVars>>

(***************************************************************************)
(* The table besides the sync: an app is added (addNewAppController, for   *)
(* an app the stores do not know), and an item is removed from the table   *)
(* from outside the server (the server has no operation that deletes an    *)
(* app).                                                                   *)
(***************************************************************************)
addNewAppController(id) ==
  /\ id \notin DOMAIN repo
  /\ repo' = addNewApp(repo, NewApp(id))
  /\ UNCHANGED <<variant, batchSize, configurations, clock, runs, reqs, m, webVars>>

ItemRemoved(id) ==
  /\ id \in DOMAIN repo
  /\ repo' = [i \in (DOMAIN repo) \ {id} |-> repo[i]]
  /\ UNCHANGED <<variant, batchSize, configurations, clock, runs, reqs, m, webVars>>

(***************************************************************************)
(* update-app: appControllers.updateAppController.  The body is an app     *)
(* record; here it carries the id, a name, a city, and no other attribute. *)
(***************************************************************************)
NoUpdate == [body |-> KeyOnly(0), status |-> 0]

\* the bodies of update-app: the name is the stored one or another
UpdateBodies ==
  UNION {{[KeyOnly(id) EXCEPT !.name = name, !.city = city] :
            name \in {ToString(id), "renamed"}, city \in {"city0", "city1"}} :
         id \in AppIds}

updateAppController(appData) ==
  /\ upd' = [body |-> appData,
             status |-> IF appData.id \in DOMAIN repo THEN 200 ELSE 404]
  /\ repo' = IF appData.id \in DOMAIN repo THEN updateMultipleApps(repo, appData) ELSE repo
  /\ UNCHANGED <<variant, batchSize, configurations, clock, runs, reqs, m,
                 session, users, http, form, cfg, configTable, view, togs, adds>>

(***************************************************************************)
(* On-demand refresh: appControllers.getAppController.                     *)
(*   pc: "idle", "refresh" (the record is stale, the lookups are pending), *)
(*   "done" (status sent).                                                 *)
(* found, stale, lookedUp, wrote record what the request saw and did.      *)
(***************************************************************************)
IdleReq ==
  [pc |-> "idle", id |-> 0, item |-> <<>>, status |-> 0,
   found |-> FALSE, stale |-> FALSE, lookedUp |-> FALSE, wrote |-> FALSE]

\* moment(a).diff(moment(b), "minutes"): whole minutes, truncated towards zero
DiffMinutes(a, b) ==
  IF a >= b THEN (a - b) \div TicksPerMinute ELSE 0 - ((b - a) \div TicksPerMinute)

\* moment(item.lastStoreUpdate): moment(undefined) is the current time
MomentOf(lastStoreUpdate, now) == IF lastStoreUpdate = NoTime THEN now ELSE lastStoreUpdate

\* a variant of StaleGate that refreshes only past the threshold
StaleGateStrict(item, now, timeToUpdate) ==
  \/ DiffMinutes(now, MomentOf(item.lastStoreUpdate, now)) > timeToUpdate
  \/ item.lastStoreUpdate = NoTime

\* the condition of the if that guards the refresh
StaleGate(item, now, timeToUpdate) ==
  \/ DiffMinutes(now, MomentOf(item.lastStoreUpdate, now)) >= timeToUpdate
  \/ item.lastStoreUpdate = NoTime

\* the request arrives and getAppById answers; a fresh record is answered at once
\* (updateUserRecentlyViewed, then the response), a stale one goes on to the lookups
GetStart(q, id, readOk, userOk) ==
  /\ reqs[q].pc \in {"idle", "done"}
  /\ LET timeToUpdate == getConfigValue("TIME_TO_UPDATE_APP_FROM_STORE_IN_MIN",
                                        DefaultTimeToUpdate)
         req == [IdleReq EXCEPT !.id = id]
     IN reqs' = [reqs EXCEPT ![q] =
                   IF ~readOk THEN [req EXCEPT !.pc = "done", !.status = 500]
                   ELSE IF id \notin DOMAIN repo
                   THEN [req EXCEPT !.pc = "done", !.status = 404]
                   ELSE IF StaleGate(repo[id], clock, timeToUpdate)
                   THEN [req EXCEPT !.item = <<repo[id]>>, !.found = TRUE,
                                    !.stale = TRUE, !.pc = "refresh"]
                   ELSE [req EXCEPT !.pc = "done", !.found = TRUE,
                                    !.status = IF userOk THEN 200 ELSE 500]]
  /\ UNCHANGED <<variant, batchSize, configurations, repo, clock, runs, m, webVars>>

\* the refresh of a stale record: both lookups, the merge block, addNewApp(item),
\* updateUserRecentlyViewed and the response; whatever throws ends in the catch
GetRefresh(q, iosAnswer, androidAnswer, writeOk, userOk) ==
  /\ reqs[q].pc = "refresh"
  /\ LET appStoreData == searchAppInStore("appstore", iosAnswer)
         playStoreData == searchAppInStore("playstore", androidAnswer)
         merged == MergeGetApp(reqs[q].item[1], appStoreData, playStoreData, clock)
         looked == [reqs[q] EXCEPT !.lookedUp = TRUE, !.item = <<>>, !.pc = "done"]
     IN IF ~merged.threw /\ writeOk
        THEN /\ repo' = addNewApp(repo, merged.rec)
             /\ reqs' = [reqs EXCEPT ![q] =
                           [looked EXCEPT !.wrote = TRUE,
                                          !.status = IF userOk THEN 200 ELSE 500]]
        ELSE /\ repo' = repo
             /\ reqs' = [reqs EXCEPT ![q] = [looked EXCEPT !.status = 500]]
  /\ UNCHANGED <<variant, batchSize, configurations, clock, runs, m, webVars>>

(***************************************************************************)
(* The wall clock: non-decreasing.  The model lets it take its first value *)
(* and the values around the moment the staleness threshold has passed     *)
(* since that first value.                                                 *)
(***************************************************************************)
\* the first value of the clock
FirstTick == 1
\* clock values the model takes once the threshold has passed
LateTicks == 1

ClockValues ==
  LET horizon == getConfigValue("TIME_TO_UPDATE_APP_FROM_STORE_IN_MIN",
                                DefaultTimeToUpdate) * TicksPerMinute
  IN {FirstTick} \cup {FirstTick + horizon - 1 + k : k \in 0..LateTicks}

Tick(t) ==
  /\ t > clock
  /\ clock' = t
  /\ UNCHANGED <<variant, batchSize, configurations, repo, runs, reqs, m, webVars>>

(***************************************************************************)
(* The middleware of the authenticated routes: authenticator, then         *)
(* authorityValidator(requiredAuthority), then the controller.  A header   *)
(* is a sequence of words and single spaces, an e-mail address a sequence  *)
(* of words and "@"; the absent header and the absent e-mail are <<>>.     *)
(***************************************************************************)
NoHeader == <<>>
NoEmail == <<>>

RECURSIVE SplitSpace(_)
\* String.prototype.split(" "): the parts between the spaces, "" being <<>>
SplitSpace(s) ==
  IF s = <<>> THEN << <<>> >>
  ELSE LET rest == SplitSpace(Tail(s))
       IN IF Head(s) = " " THEN << <<>> >> \o rest
          ELSE << <<Head(s)>> \o rest[1] >> \o Tail(rest)

RECURSIVE AfterAt(_)
\* email.split("@")[1]
AfterAt(s) ==
  IF s = <<>> THEN Undef
  ELSE IF Head(s) = "@"
       THEN (IF Tail(s) = <<>> \/ Tail(s)[1] = "@" THEN "" ELSE Tail(s)[1])
  ELSE AfterAt(Tail(s))

Ann == <<"ann", "@", "ridewithvia.com">>
Ben == <<"ben", "@", "ridewithvia.com">>
Eve == <<"eve", "@", "other.com">>

\* client.verifyIdToken and ticket.getPayload: the e-mail of the payload of a token
\* Google accepts (none for a payload without e-mail); any other token is rejected
verifyIdToken(token) ==
  CASE token = <<"tokenAnn">> -> [ok |-> TRUE, email |-> Ann]
    [] token = <<"tokenBen">> -> [ok |-> TRUE, email |-> Ben]
    [] token = <<"tokenEve">> -> [ok |-> TRUE, email |-> Eve]
    [] token = <<"tokenNoEmail">> -> [ok |-> TRUE, email |-> NoEmail]
    [] OTHER -> [ok |-> FALSE, email |-> NoEmail]

\* the Authorization headers of the requests
Headers ==
  {NoHeader, <<"Bearer">>, <<"Bearer", " ">>, <<"Bearer", " ", " ", "tokenAnn">>,
   <<"Basic", " ", "tokenAnn">>, <<"bearer", " ", "tokenAnn">>,
   <<"Bearer", " ", "tokenAnn">>, <<"Bearer", " ", "tokenBen">>,
   <<"Bearer", " ", "tokenEve">>, <<"Bearer", " ", "tokenNoEmail">>,
   <<"Bearer", " ", "forged">>}

\* the authorities of the endpoints
Authorities == {"USER", "ADMIN", "PUBLIC"}

NoSession == [user |-> NoEmail, authorization |-> Undef]

\* an item of the "users" table as addUser writes it
NewUser(authorization) ==
  [authorization |-> authorization, favorites |-> <<>>, recentlyViewed |-> {}]

\* userService.addUser: PutItemCommand
addUser(tbl, email, authorization) ==
  [e \in (DOMAIN tbl) \cup {email} |-> IF e = email THEN NewUser(authorization) ELSE tbl[e]]

\* authenticator: whether next() is called, the status sent otherwise, and the
\* session and the table it leaves
authenticator(sess, tbl, header, dbOk) ==
  LET parts == SplitSpace(header)
      bearer == parts[1]
      token == IF Len(parts) >= 2 THEN parts[2] ELSE <<>>
      ticket == verifyIdToken(token)
      refused == [next |-> FALSE, status |-> 403, session |-> sess, users |-> tbl]
      passed == [next |-> TRUE, status |-> 0, session |-> sess, users |-> tbl]
  IN IF header = NoHeader THEN refused
     ELSE IF bearer # <<"Bearer">> \/ token = <<>> THEN refused
     ELSE IF sess.user # NoEmail /\ Truthy(sess.authorization) THEN passed
     ELSE IF ~ticket.ok \/ ticket.email = NoEmail THEN refused
     ELSE IF sess.user # NoEmail THEN passed
     ELSE IF ~dbOk THEN refused
     ELSE IF ticket.email \in DOMAIN tbl
     THEN [passed EXCEPT !.session = [user |-> ticket.email,
                                      authorization |-> tbl[ticket.email].authorization]]
     ELSE IF AfterAt(ticket.email) # "ridewithvia.com" THEN refused
     ELSE [passed EXCEPT !.users = addUser(tbl, ticket.email, "USER"),
                         !.session = [user |-> ticket.email, authorization |-> "USER"]]

\* a variant of validateUserAuth in which ADMIN is an authority like the others
validateUserAuthNoAdmin(endpointAuthority, userAuthority) ==
  userAuthority = endpointAuthority

validateUserAuth(endpointAuthority, userAuthority) ==
  IF userAuthority = "ADMIN" THEN TRUE ELSE userAuthority = endpointAuthority

\* authorityValidator(requiredAuthority): the status it sends, 0 when it calls next()
authorityValidator(requiredAuthority, sess) ==
  IF sess.user = NoEmail \/ ~Truthy(sess.authorization) THEN 401
  ELSE IF ~validateUserAuth(requiredAuthority, sess.authorization) THEN 403
  ELSE 0

\* no request yet
NoRequest == [stage |-> "idle", header |-> NoHeader, required |-> "USER", status |-> 0]

\* a request arrives at an authenticated route and goes through authenticator
Authenticate(header, required, dbOk) ==
  /\ http.stage \in {"idle", "controller", "rejected"}
  /\ LET out == authenticator(session, users, header, dbOk)
     IN /\ session' = out.session
        /\ users' = out.users
        /\ http' = [stage |-> IF out.next THEN "authenticated" ELSE "rejected",
                    header |-> header, required |-> required, status |-> out.status]
  /\ UNCHANGED <<configurations, syncVars, apiVars>>

\* the request goes through authorityValidator of its endpoint
Authorize ==
  /\ http.stage = "authenticated"
  /\ LET status == authorityValidator(http.required, session)
     IN http' = [http EXCEPT !.stage = IF status = 0 THEN "controller" ELSE "rejected",
                             !.status = status]
  /\ UNCHANGED <<configurations, syncVars, session, users, apiVars>>

(***************************************************************************)
(* Validation of an app body: appValidationBodySchema.  A string is kept   *)
(* as the sequence of its parts, so that a URL is told from another string *)
(* by its scheme and host; an attribute the body does not carry is         *)
(* Undef, or NoLink for a link.                                            *)
(***************************************************************************)
NoLink == <<>>
IosUrl == <<"https", "://", "example.com", "/ios">>
AndroidUrl == <<"https", "://", "example.com", "/android">>
NotAUrl == <<"not-a-valid-url">>
NoScheme == <<"example.com", "/ios">>

\* yup's string().url(): a scheme, "://" and a host
IsUrl(s) ==
  /\ Len(s) >= 3
  /\ s[1] \in {"http", "https", "ftp"}
  /\ s[2] = "://"
  /\ s[3] = "example.com"

\* the attributes of the schema that are required()
RequiredFields ==
  {"id", "name", "iosAppId", "androidAppId", "env", "tenant", "city", "country"}

\* the attributes of the schema that are url().optional()
LinkFields == {"iosLink", "androidLink"}

\* validData of the test of the schema; it has no iosAppId and no androidAppId
ValidData ==
  [id |-> "app-123", name |-> "MyApp", iosAppId |-> Undef, androidAppId |-> Undef,
   env |-> "production", tenant |-> "TenantA", city |-> "New York",
   country |-> "USA", iosLink |-> IosUrl, androidLink |-> AndroidUrl]

\* the bodies: each required attribute present or not, each link absent, a URL, or not a URL
Bodies ==
  {[f \in DOMAIN ValidData |->
      IF f \in LinkFields
      THEN (IF f = "iosLink" THEN il ELSE al)
      ELSE IF f \in missing THEN Undef
      ELSE IF ValidData[f] = Undef THEN "123456" ELSE ValidData[f]] :
     missing \in SUBSET RequiredFields,
     il \in {NoLink, IosUrl, NotAUrl, NoScheme},
     al \in {NoLink, AndroidUrl, NotAUrl}}

\* appValidationBodySchema.validate(body) resolves
appValidationBodySchema(body) ==
  /\ \A f \in RequiredFields : body[f] # Undef
  /\ \A f \in LinkFields : body[f] # NoLink => IsUrl(body[f])

NoForm == [stage |-> "none", body |-> ValidData, result |-> "none"]

validate(body) ==
  /\ form.stage = "none"
  /\ form' = [stage |-> "validated", body |-> body,
              result |-> IF appValidationBodySchema(body)
                         THEN "valid" ELSE "ValidationError"]
  /\ UNCHANGED <<configurations, syncVars, session, users, http, upd, cfg, configTable, view, togs, adds>>

(***************************************************************************)
(* Configurations: the table, the copy of it that setConfigurations reads  *)
(* into global.configurations when the server starts, and the edit of a    *)
(* value (configurationsService.editConfigurationValue).                   *)
(***************************************************************************)
ConfigKeys ==
  <<"NUMBER_OF_USER_RECENTLY_VIEWED_APPS", "TIME_TO_UPDATE_APP_FROM_STORE_IN_MIN">>

\* largest configuration value
MaxConfigValue == 3
ConfigValues == 1..MaxConfigValue

NoConfigTable == [k \in {} |-> 0]
ConfigTables ==
  UNION {[names -> ConfigValues] : names \in SUBSET {ConfigKeys[i] : i \in DOMAIN ConfigKeys}}

RECURSIVE ItemsFrom(_, _)
ItemsFrom(tbl, i) ==
  IF i > Len(ConfigKeys) THEN <<>>
  ELSE (IF ConfigKeys[i] \in DOMAIN tbl
        THEN <<[name |-> ConfigKeys[i], value |-> tbl[ConfigKeys[i]]]>>
        ELSE <<>>) \o ItemsFrom(tbl, i + 1)

\* getAllConfigurations: the items of the table
getAllConfigurations(tbl) == ItemsFrom(tbl, 1)

\* UpdateCommand SET #value = :newValue on the item of key
editConfigurationValue(tbl, key, value) ==
  [k \in (DOMAIN tbl) \cup {key} |-> IF k = key THEN value ELSE tbl[k]]

NoEdit == [key |-> "", value |-> 0, status |-> 0]

editConfigurationValueController(key, value, dbOk) ==
  /\ cfg' = [key |-> key, value |-> value, status |-> IF dbOk THEN 200 ELSE 500]
  /\ configTable' = IF dbOk THEN editConfigurationValue(configTable, key, value)
                    ELSE configTable
  /\ UNCHANGED <<configurations, syncVars, session, users, http, upd, form, view, togs, adds>>

(***************************************************************************)
(* Recently viewed apps of a user.  The attribute is written as a          *)
(* DynamoDB string set (SS): the item holds the set of the ids, and a read *)
(* returns them in an order the table chooses.                             *)
(***************************************************************************)
\* number of apps the client views
MaxViewIds == 3
ViewIds == 1..MaxViewIds
\* largest configured length of the queue
MaxRecent == 2
DefaultRecentlyViewed == 10

RecentConfig(n) == [name |-> "NUMBER_OF_USER_RECENTLY_VIEWED_APPS", value |-> n]

\* the orders in which the elements of a string set can be returned
Orders(S) ==
  {o \in [1..Cardinality(S) -> S] : \A i, j \in 1..Cardinality(S) : o[i] = o[j] => i = j}

\* Array.prototype.filter((app) => app !== appId)
RECURSIVE Without(_, _)
Without(list, appId) ==
  IF list = <<>> THEN <<>>
  ELSE (IF Head(list) # appId THEN <<Head(list)>> ELSE <<>>) \o Without(Tail(list), appId)

\* while (currentList.length > limit) currentList.shift()
RECURSIVE ShiftTo(_, _)
ShiftTo(list, limit) ==
  IF Len(list) > limit /\ list # <<>> THEN ShiftTo(Tail(list), limit) ELSE list

\* the list updateUserRecentlyViewed sends, from the list it read
RecentList(currentList, appId, limit) ==
  ShiftTo(Append(Without(currentList, appId), appId), limit)

Elements(list) == {list[i] : i \in DOMAIN list}

NoView == [last |-> 0, seen |-> <<>>, list |-> <<>>, read |-> FALSE]

\* userService.updateUserRecentlyViewed(email, appId); order is the order in
\* which GetItem returns the stored set
updateUserRecentlyViewed(email, appId, order) ==
  /\ email \in DOMAIN users
  /\ order \in Orders(users[email].recentlyViewed)
  /\ LET limit == getConfigValue("NUMBER_OF_USER_RECENTLY_VIEWED_APPS", DefaultRecentlyViewed)
         currentList == RecentList(order, appId, limit)
     IN users' = [users EXCEPT ![email].recentlyViewed = Elements(currentList)]
  /\ view' = [view EXCEPT !.last = appId, !.seen = Append(Without(@, appId), appId),
                          !.read = FALSE]
  /\ UNCHANGED <<configurations, syncVars, session, http, upd, form, cfg, configTable, togs, adds>>

\* userService.getRecentlyViewed(email)
getRecentlyViewed(email, order) ==
  /\ email \in DOMAIN users
  /\ view.last # 0
  /\ order \in Orders(users[email].recentlyViewed)
  /\ view' = [view EXCEPT !.list = order, !.read = TRUE]
  /\ UNCHANGED <<configurations, syncVars, session, users, http, upd, form, cfg, configTable, togs, adds>>

(***************************************************************************)
(* Favorites of a user: userService.toggleUserFavorite reads the list      *)
(* (getUserFavorites), awaits, and writes the whole new list.              *)
(*   pc: "idle", "read" (the list is read, the write is pending), "done".  *)
(***************************************************************************)
\* number of toggle calls in progress at once
MaxToggles == 2
ToggleIds == 1..MaxToggles
\* number of apps that can be favorites
MaxFavIds == 2
FavIds == 1..MaxFavIds

IdleToggle == [pc |-> "idle", favoriteItem |-> 0, currentFavorites |-> <<>>]

\* userService.getUserFavorites: the list of the item, [] for an unknown user
getUserFavorites(tbl, email) ==
  IF email \in DOMAIN tbl THEN tbl[email].favorites ELSE <<>>

\* the list toggleUserFavorite writes, from the list it read
NewFavorites(currentFavorites, favoriteItem) ==
  IF favoriteItem \in Elements(currentFavorites)
  THEN Without(currentFavorites, favoriteItem)
  ELSE Append(currentFavorites, favoriteItem)

\* toggleUserFavorite up to the await of getUserFavorites
ToggleRead(t, email, favoriteItem) ==
  /\ togs[t].pc \in {"idle", "done"}
  /\ email \in DOMAIN users
  /\ togs' = [togs EXCEPT ![t] = [pc |-> "read", favoriteItem |-> favoriteItem,
                                  currentFavorites |-> getUserFavorites(users, email)]]
  /\ UNCHANGED <<configurations, syncVars, session, users, http, upd, form, cfg,
                 configTable, view, adds>>

\* the rest of toggleUserFavorite: UpdateItem SET favorites = :fav
ToggleWrite(t, email) ==
  /\ togs[t].pc = "read"
  /\ email \in DOMAIN users
  /\ users' = [users EXCEPT ![email].favorites =
                 NewFavorites(togs[t].currentFavorites, togs[t].favoriteItem)]
  /\ togs' = [togs EXCEPT ![t].pc = "done"]
  /\ UNCHANGED <<configurations, syncVars, session, http, upd, form, cfg,
                 configTable, view, adds>>

(***************************************************************************)
(* add-app, await by await: addNewAppController looks the id up            *)
(* (getAppById), awaits the store lookups, and puts the item.              *)
(*   pc: "idle", "lookups" (the id was free, the lookups are pending),     *)
(*   "done" (status sent).                                                 *)
(***************************************************************************)
\* number of add-app requests in progress at once
MaxAdds == 2
AddIds == 1..MaxAdds

IdleAdd == [pc |-> "idle", app |-> NewApp(1), status |-> 0]

\* the bodies of add-app: an app the stores do not know, in one of two cities
AddBodies == {[NewApp(id) EXCEPT !.city = city] : id \in AppIds, city \in {"city0", "city1"}}

\* addNewAppController up to the await of the first store lookup
AddCheck(a, app) ==
  /\ adds[a].pc \in {"idle", "done"}
  /\ adds' = [adds EXCEPT ![a] =
                IF app.id \in DOMAIN repo
                THEN [pc |-> "done", app |-> app, status |-> 400]
                ELSE [pc |-> "lookups", app |-> app, status |-> 0]]
  /\ UNCHANGED <<configurations, syncVars, session, users, http, upd, form, cfg,
                 configTable, view, togs>>

\* the rest of addNewAppController: the stores know nothing, addNewApp(app)
AddPut(a) ==
  /\ adds[a].pc = "lookups"
  /\ repo' = addNewApp(repo, adds[a].app)
  /\ adds' = [adds EXCEPT ![a].pc = "done", ![a].status = 200]
  /\ UNCHANGED <<variant, batchSize, configurations, clock, runs, reqs, m,
                 session, users, http, upd, form, cfg, configTable, view, togs>>

(***************************************************************************)
(* The system.                                                             *)
(***************************************************************************)
\* the state of the other endpoints when no request has been made
ApiOff ==
  /\ upd = NoUpdate
  /\ form = NoForm
  /\ cfg = NoEdit
  /\ view = NoView
  /\ togs = [t \in ToggleIds |-> IdleToggle]
  /\ adds = [a \in AddIds |-> IdleAdd]

\* the state of the middleware when the server is not serving a client
WebOff ==
  /\ session = NoSession
  /\ users = [e \in {} |-> NewUser("USER")]
  /\ http = NoRequest
  /\ ApiOff
  /\ configTable = NoConfigTable

MOff ==
  [stage |-> "off", kind |-> "getApp", rec |-> NewApp(1), ios |-> Null,
   android |-> Null, now |-> 0, now2 |-> 0,
   out1 |-> [rec |-> NewApp(1), threw |-> FALSE],
   out2 |-> [rec |-> NewApp(1), threw |-> FALSE], round |-> 0]

TimeToUpdateConfig ==
  [name |-> "TIME_TO_UPDATE_APP_FROM_STORE_IN_MIN", value |-> 1]

Init ==
  /\ variant \in {"setTimeout", "setIntervalAsync"}
  /\ batchSize \in 1..MaxBatch
  /\ configurations \in {<<>>, <<TimeToUpdateConfig>>}
  /\ \E n \in 0..MaxApps : repo = [i \in 1..n |-> NewApp(i)]
  /\ clock = FirstTick
  /\ runs = [r \in RunIds |-> IdleRun]
  /\ reqs = [q \in ReqIds |-> IdleReq]
  /\ m = MOff
  /\ WebOff

Next ==
  \/ \E r \in RunIds, readOk \in BOOLEAN : StartRun(r, readOk)
  \/ \E r \in RunIds : TimerFire(r)
  \/ \E r \in RunIds, i \in IosAnswers, a \in AndroidAnswers, writeOk \in BOOLEAN :
       ProcessApp(r, i, a, writeOk)
  \/ \E q \in ReqIds, id \in AppIds, readOk \in BOOLEAN, userOk \in BOOLEAN :
       GetStart(q, id, readOk, userOk)
  \/ \E q \in ReqIds, i \in IosAnswers, a \in AndroidAnswers,
        writeOk \in BOOLEAN, userOk \in BOOLEAN :
       GetRefresh(q, i, a, writeOk, userOk)
  \/ \E t \in ClockValues : Tick(t)

Spec == Init /\ [][Next]_vars

\* the bulk sync runs on their own, with timers that fire and lookups and writes
\* that answer
RunNext ==
  \/ \E r \in RunIds, readOk \in BOOLEAN : StartRun(r, readOk)
  \/ \E r \in RunIds : TimerFire(r)
  \/ \E r \in RunIds, i \in IosAnswers, a \in AndroidAnswers, writeOk \in BOOLEAN :
       ProcessApp(r, i, a, writeOk)
  \/ \E t \in ClockValues : Tick(t)

FairSpec ==
  /\ Init
  /\ [][RunNext]_vars
  /\ \A r \in RunIds : WF_vars(TimerFire(r))
  /\ \A r \in RunIds :
       WF_vars(\E i \in IosAnswers, a \in AndroidAnswers, writeOk \in BOOLEAN :
                 ProcessApp(r, i, a, writeOk))

(***************************************************************************)
(* The bulk sync await by await, started by the cron callback or by the    *)
(* admin request, while apps are added to the table and items removed from *)
(* it.  Timers fire and the calls that answer do answer; a lookup may      *)
(* never answer.                                                           *)
(***************************************************************************)
SyncInit ==
  /\ variant \in {"setTimeout", "setIntervalAsync"}
  /\ batchSize \in 1..MaxBatch
  /\ configurations = <<>>
  /\ \E n \in 0..MaxApps : repo = [i \in 1..n |-> NewApp(i)]
  /\ clock = FirstTick
  /\ runs = [r \in RunIds |-> IdleRun]
  /\ reqs = [q \in ReqIds |-> IdleReq]
  /\ m = MOff
  /\ WebOff

SyncNext ==
  \/ \E r \in RunIds, readOk \in BOOLEAN : StartRun(r, readOk)
  \/ \E r \in RunIds, readOk \in BOOLEAN : updateAppsFromStores(r, readOk)
  \/ \E r \in RunIds : TimerFire(r)
  \/ \E r \in RunIds, i \in IosAnswers : IosAnswer(r, i)
  \/ \E r \in RunIds, a \in AndroidAnswers : AndroidAnswer(r, a)
  \/ \E r \in RunIds, writeOk \in BOOLEAN : WriteAnswer(r, writeOk)
  \/ \E r \in RunIds : LookupHangs(r)
  \/ \E id \in AppIds : addNewAppController(id)
  \/ \E id \in AppIds : ItemRemoved(id)

SyncSpec ==
  /\ SyncInit
  /\ [][SyncNext]_vars
  /\ \A r \in RunIds : WF_vars(TimerFire(r))
  /\ \A r \in RunIds : WF_vars(\E i \in IosAnswers : IosAnswer(r, i))
  /\ \A r \in RunIds : WF_vars(\E a \in AndroidAnswers : AndroidAnswer(r, a))
  /\ \A r \in RunIds : WF_vars(\E writeOk \in BOOLEAN : WriteAnswer(r, writeOk))

(***************************************************************************)
(* The merge on its own: a record and two lookup results are drawn, the    *)
(* merge is applied, applied again to its own result with the same lookup  *)
(* results, and the result is fed back as the next record.                 *)
(***************************************************************************)
\* times the result of a merge is fed back as the next input
MaxRounds == 1

\* records to merge into: as added, with an image of their own, already stamped
MRecs ==
  {[NewApp(1) EXCEPT !.imageUrl = img, !.lastStoreUpdate = t] :
     img \in {Undef, "", "img0"}, t \in {NoTime, FirstTick}}

\* what the iTunes lookup may hand to the merge
MIos ==
  {Null, <<IosMeta(1)>>, <<IosMeta(2)>>,
   <<[IosMeta(1) EXCEPT !.artworkUrl512 = Undef]>>,
   <<[IosMeta(1) EXCEPT !.artworkUrl512 = ""]>>,
   <<[IosMeta(1) EXCEPT !.releaseDate = UndefStr]>>,
   <<[IosMeta(2) EXCEPT !.currentVersionReleaseDate = UndefStr]>>}

\* what the Play Store lookup may hand to the merge
MAndroid ==
  {Null, <<AndroidMeta(1)>>, <<AndroidMeta(2)>>,
   <<[AndroidMeta(1) EXCEPT !.icon = Undef]>>,
   <<[AndroidMeta(2) EXCEPT !.updated = InvalidDate]>>}

MergeInit ==
  /\ variant = "setTimeout"
  /\ batchSize = 1
  /\ configurations = <<>>
  /\ repo = [i \in {} |-> NewApp(i)]
  /\ clock = FirstTick
  /\ runs = [r \in RunIds |-> IdleRun]
  /\ reqs = [q \in ReqIds |-> IdleReq]
  /\ \E kind \in {"setTimeout", "setIntervalAsync", "getApp"},
        rec \in MRecs, ios \in MIos, android \in MAndroid :
       m = [MOff EXCEPT !.stage = "in", !.kind = kind, !.rec = rec, !.ios = ios,
                        !.android = android, !.now = FirstTick + 1]
  /\ WebOff

\* one sync pass merges the lookups into the record
MApply ==
  /\ m.stage = "in"
  /\ m' = [m EXCEPT !.stage = "once",
                    !.out1 = Merge(m.kind, m.rec, m.ios, m.android, m.now)]
  /\ UNCHANGED <<variant, batchSize, configurations, repo, clock, runs, reqs, webVars>>

\* a second pass merges the same lookups into the result, at the same time or later
MApplyAgain(later) ==
  /\ m.stage = "once"
  /\ m' = [m EXCEPT !.stage = "twice", !.now2 = m.now + later,
                    !.out2 = Merge(m.kind, m.out1.rec, m.ios, m.android, m.now + later)]
  /\ UNCHANGED <<variant, batchSize, configurations, repo, clock, runs, reqs, webVars>>

\* the merged record is the input of a later pass with other lookup results
MFeed(ios, android) ==
  /\ m.stage = "twice"
  /\ m.round < MaxRounds
  /\ m' = [m EXCEPT !.stage = "in", !.rec = m.out2.rec, !.ios = ios,
                    !.android = android, !.now = m.now2 + 1, !.round = @ + 1]
  /\ UNCHANGED <<variant, batchSize, configurations, repo, clock, runs, reqs, webVars>>

MergeNext ==
  \/ MApply
  \/ \E later \in 0..1 : MApplyAgain(later)
  \/ \E ios \in MIos, android \in MAndroid : MFeed(ios, android)

MergeSpec == MergeInit /\ [][MergeNext]_vars

(***************************************************************************)
(* The middleware on its own: requests of one client, one after another.   *)
(***************************************************************************)
\* the table holds any of Ann (with or without an authorization) and Eve
AuthInit ==
  /\ variant = "setTimeout"
  /\ batchSize = 1
  /\ configurations = <<>>
  /\ repo = [i \in {} |-> NewApp(i)]
  /\ clock = FirstTick
  /\ runs = [r \in RunIds |-> IdleRun]
  /\ reqs = [q \in ReqIds |-> IdleReq]
  /\ m = MOff
  /\ session = NoSession
  /\ http = NoRequest
  /\ ApiOff
  /\ configTable = NoConfigTable
  /\ \E known \in SUBSET {Ann, Eve}, auth \in {"USER", "ADMIN", Undef} :
       users = [e \in known |-> NewUser(IF e = Ann THEN auth ELSE "USER")]

AuthNext ==
  \/ \E header \in Headers, required \in Authorities, dbOk \in BOOLEAN :
       Authenticate(header, required, dbOk)
  \/ Authorize

AuthSpec == AuthInit /\ [][AuthNext]_vars

(***************************************************************************)
(* The sync while update-app requests are served: the table has no other   *)
(* writer.                                                                 *)
(***************************************************************************)
UpdateInit == SyncInit

UpdateNext ==
  \/ \E r \in RunIds, readOk \in BOOLEAN : updateAppsFromStores(r, readOk)
  \/ \E r \in RunIds : TimerFire(r)
  \/ \E r \in RunIds, i \in IosAnswers : IosAnswer(r, i)
  \/ \E r \in RunIds, a \in AndroidAnswers : AndroidAnswer(r, a)
  \/ \E r \in RunIds, writeOk \in BOOLEAN : WriteAnswer(r, writeOk)
  \/ \E appData \in UpdateBodies : updateAppController(appData)

UpdateSpec == UpdateInit /\ [][UpdateNext]_vars

(***************************************************************************)
(* The schema on its own: one body is validated.                           *)
(***************************************************************************)
\* the sync at rest: an empty table, no run, no request
SyncOff ==
  /\ variant = "setTimeout"
  /\ batchSize = 1
  /\ configurations = <<>>
  /\ repo = [i \in {} |-> NewApp(i)]
  /\ clock = FirstTick
  /\ runs = [r \in RunIds |-> IdleRun]
  /\ reqs = [q \in ReqIds |-> IdleReq]
  /\ m = MOff

SchemaInit == SyncOff /\ WebOff

SchemaNext == \E body \in Bodies : validate(body)

SchemaSpec == SchemaInit /\ [][SchemaNext]_vars

(***************************************************************************)
(* The configurations of one server process: setConfigurations has run at  *)
(* startup (it read the table, or it failed and left global.configurations *)
(* unset), then values are edited.                                         *)
(***************************************************************************)
ConfigInit ==
  /\ variant = "setTimeout"
  /\ batchSize = 1
  /\ repo = [i \in {} |-> NewApp(i)]
  /\ clock = FirstTick
  /\ runs = [r \in RunIds |-> IdleRun]
  /\ reqs = [q \in ReqIds |-> IdleReq]
  /\ m = MOff
  /\ session = NoSession
  /\ users = [e \in {} |-> NewUser("USER")]
  /\ http = NoRequest
  /\ ApiOff
  /\ configTable \in ConfigTables
  /\ \E readOk \in BOOLEAN :
       configurations = IF readOk THEN getAllConfigurations(configTable) ELSE <<>>

ConfigNext ==
  \E i \in DOMAIN ConfigKeys, value \in ConfigValues, dbOk \in BOOLEAN :
    editConfigurationValueController(ConfigKeys[i], value, dbOk)

ConfigSpec == ConfigInit /\ [][ConfigNext]_vars

(***************************************************************************)
(* The recently viewed apps of one user: views and reads of the list, one  *)
(* after another.                                                          *)
(***************************************************************************)
ViewInit ==
  /\ variant = "setTimeout"
  /\ batchSize = 1
  /\ \E n \in 1..MaxRecent : configurations = <<RecentConfig(n)>>
  /\ repo = [i \in {} |-> NewApp(i)]
  /\ clock = FirstTick
  /\ runs = [r \in RunIds |-> IdleRun]
  /\ reqs = [q \in ReqIds |-> IdleReq]
  /\ m = MOff
  /\ session = [user |-> Ann, authorization |-> "USER"]
  /\ users = [e \in {Ann} |-> NewUser("USER")]
  /\ http = NoRequest
  /\ ApiOff
  /\ configTable = NoConfigTable

ViewNext ==
  \/ \E appId \in ViewIds, order \in Orders(users[Ann].recentlyViewed) :
       updateUserRecentlyViewed(Ann, appId, order)
  \/ \E order \in Orders(users[Ann].recentlyViewed) : getRecentlyViewed(Ann, order)

ViewSpec == ViewInit /\ [][ViewNext]_vars

(***************************************************************************)
(* The favorites of one user: toggle requests, which may overlap.          *)
(***************************************************************************)
FavInit ==
  /\ SyncOff
  /\ session = [user |-> Ann, authorization |-> "USER"]
  /\ users = [e \in {Ann} |-> NewUser("USER")]
  /\ http = NoRequest
  /\ ApiOff
  /\ configTable = NoConfigTable

FavNext ==
  \/ \E t \in ToggleIds, favoriteItem \in FavIds : ToggleRead(t, Ann, favoriteItem)
  \/ \E t \in ToggleIds : ToggleWrite(t, Ann)

FavSpec == FavInit /\ [][FavNext]_vars

(***************************************************************************)
(* add-app requests, which may overlap, on a table that holds some apps.   *)
(***************************************************************************)
AddInit ==
  /\ variant = "setTimeout"
  /\ batchSize = 1
  /\ configurations = <<>>
  /\ \E n \in 0..MaxApps : repo = [i \in 1..n |-> NewApp(i)]
  /\ clock = FirstTick
  /\ runs = [r \in RunIds |-> IdleRun]
  /\ reqs = [q \in ReqIds |-> IdleReq]
  /\ m = MOff
  /\ WebOff

AddNext ==
  \/ \E a \in AddIds, app \in AddBodies : AddCheck(a, app)
  \/ \E a \in AddIds : AddPut(a)

AddSpec == AddInit /\ [][AddNext]_vars

(***************************************************************************)
(* Properties of the merge (checked under MergeSpec).                      *)
(***************************************************************************)
\* the merge has been applied to the drawn inputs
Merged == m.stage \in {"once", "twice"}
FoundAny == m.ios # Null \/ m.android # Null

\* C6: in one sync pass lastStoreUpdate of the merged record is the current time
\* if and only if at least one of the two lookups returned metadata; otherwise it
\* keeps the value it had
C6_StampedIffFound ==
  Merged =>
    /\ (m.out1.rec.lastStoreUpdate = m.now) <=> FoundAny
    /\ ~FoundAny => m.out1.rec.lastStoreUpdate = m.rec.lastStoreUpdate

\* C6 witness: only the Play Store lookup found the app and the record is stamped
C6_Witness ==
  /\ m.stage = "once" /\ m.kind = "setTimeout"
  /\ m.ios = Null /\ m.android # Null
  /\ m.rec.lastStoreUpdate = FirstTick
  /\ m.out1.rec.lastStoreUpdate = m.now

\* C7: when both lookups return not-found the merge leaves the record equal to its
\* input in every field, lastStoreUpdate included
C7_NotFoundNoOp ==
  (Merged /\ ~FoundAny) => (m.out1.rec = m.rec /\ ~m.out1.threw)

\* C7 witness: a stamped record with an image went through a merge of two not-founds
C7_Witness ==
  /\ m.stage = "once" /\ m.kind = "setTimeout"
  /\ ~FoundAny
  /\ m.rec.imageUrl = "img0" /\ m.rec.lastStoreUpdate = FirstTick
  /\ m.out1.rec = m.rec

\* imageUrl of the record once the iOS block has run
ImageAfterIos == IF m.ios # Null THEN m.ios[1].artworkUrl512 ELSE m.rec.imageUrl

\* C8 as stated: with iOS metadata present the merged imageUrl is the iOS artwork
\* URL whatever the Android metadata is; the Android icon is written only when the
\* record has no imageUrl after the iOS step; an imageUrl the record had is never
\* replaced by Android data
C8_Original ==
  Merged =>
    /\ m.ios # Null => m.out1.rec.imageUrl = m.ios[1].artworkUrl512
    /\ Truthy(ImageAfterIos) => m.out1.rec.imageUrl = ImageAfterIos
    /\ Truthy(m.rec.imageUrl) =>
         m.out1.rec.imageUrl \in {m.rec.imageUrl, ImageAfterIos}

\* C8 amended: with iOS metadata that carries a non-empty artwork URL the merged
\* imageUrl is that URL whatever the Android metadata is; the Android icon is
\* written only when the record has no imageUrl after the iOS step, so an imageUrl
\* the record has after the iOS step is never replaced by Android data
C8_IosFirst ==
  Merged =>
    /\ (m.ios # Null /\ Truthy(m.ios[1].artworkUrl512)) =>
         m.out1.rec.imageUrl = m.ios[1].artworkUrl512
    /\ Truthy(ImageAfterIos) => m.out1.rec.imageUrl = ImageAfterIos
    /\ m.out1.rec.imageUrl # ImageAfterIos =>
         (m.android # Null /\ m.out1.rec.imageUrl = m.android[1].icon)

\* C8 witness: a record without image, both lookups found the app with different
\* artwork, and the merged image is the iOS artwork
C8_Witness ==
  /\ m.stage = "once" /\ m.kind = "setTimeout"
  /\ m.rec.imageUrl = Undef
  /\ m.ios # Null /\ m.android # Null /\ ~m.out1.threw
  /\ Truthy(m.android[1].icon)
  /\ m.out1.rec.imageUrl = m.ios[1].artworkUrl512
  /\ m.out1.rec.imageUrl # m.android[1].icon
  /\ m.out1.rec.androidVersion = m.android[1].version

\* a record with lastStoreUpdate left out of the comparison
SansStamp(rec) == [rec EXCEPT !.lastStoreUpdate = NoTime]

\* C9: merging the same lookup results into the record twice gives a record equal,
\* in every field except lastStoreUpdate, to merging them once
C9_Idempotent ==
  m.stage = "twice" =>
    /\ SansStamp(m.out2.rec) = SansStamp(m.out1.rec)
    /\ m.out2.threw = m.out1.threw

\* C9 witness: both lookups found the app, the second merge ran later and moved
\* only lastStoreUpdate
C9_Witness ==
  /\ m.stage = "twice" /\ m.kind = "setTimeout"
  /\ m.ios # Null /\ m.android # Null /\ ~m.out2.threw
  /\ m.out1.rec # m.rec
  /\ m.out2.rec.lastStoreUpdate > m.out1.rec.lastStoreUpdate
  /\ m.out2.rec.iosScreenshots = m.ios[1].screenshotUrls

(***************************************************************************)
(* Properties of the bulk sync run (checked under Spec and FairSpec).      *)
(***************************************************************************)
\* the ids of a sequence of records
Ids(apps) == [k \in 1..Len(apps) |-> apps[k].id]

\* a run that took its snapshot
Started(run) == run.pc \in {"armed", "inbatch", "done"}

\* ceil(n / b)
Ceil(n, b) == (n + b - 1) \div b

\* C1: a bulk sync run processes the apps of its snapshot in snapshot order, none
\* skipped and none twice (what it has processed is always the first apps of the
\* snapshot, up to the cursor), and once it has run to the end it has processed
\* each of the N apps exactly once
C1_EachOnceInOrder ==
  \A r \in RunIds :
    LET run == runs[r]
    IN /\ Len(run.log) <= Len(run.allApps)
       /\ run.log = SubSeq(Ids(run.allApps), 1, Len(run.log))
       /\ run.pc = "inbatch" => Len(run.log) = run.currentIndex + run.pos - 1
       /\ run.pc = "armed" => Len(run.log) = Min(run.currentIndex, Len(run.allApps))
       /\ run.pc = "done" => run.log = Ids(run.allApps)

\* C1 witness: a run over two apps in two batches of one has ended, with one app
\* written and the other caught
C1_Witness ==
  \E r \in RunIds :
    /\ runs[r].pc = "done" /\ batchSize = 1
    /\ runs[r].log = <<1, 2>> /\ runs[r].ticks = 2
    /\ runs[r].writes = 1 /\ runs[r].caught = 1

\* the state of a run as far as C2 speaks of it
TicksBounded(run) ==
  LET n == Len(run.allApps)
  IN /\ run.ticks <= Ceil(n, batchSize)
     /\ run.fired <= Ceil(n, batchSize) + 1
     /\ run.pc = "done" =>
          /\ run.ticks = Ceil(n, batchSize)
          /\ run.fired = run.ticks + 1
          /\ run.currentIndex >= n
     /\ (Started(run) /\ run.pc # "done") => run.fired = run.ticks

C3_EmptyCatalogCompletesAtOnce ==
  \A r \in RunIds :
    (Started(runs[r]) /\ Len(runs[r].allApps) = 0) =>
      (runs[r].pc = "done" /\ runs[r].lookups = 0 /\ runs[r].writes = 0)

\* C4: when the processing of an app fails (the merge block or the write throws)
\* the failure is caught at that app: the table is not written, the loop goes on
\* to the next app of the slice, and after the last app of the slice the cursor
\* advances and the next tick is scheduled
C4_FailureIsolated ==
  [][\A r \in RunIds :
       runs'[r].caught > runs[r].caught =>
         LET run == runs[r]
             n == Len(Slice(run.allApps, run.currentIndex))
         IN /\ repo' = repo
            /\ runs'[r].log = Append(run.log, run.allApps[run.currentIndex + run.pos].id)
            /\ IF run.pos < n
               THEN /\ runs'[r].pc = "inbatch"
                    /\ runs'[r].pos = run.pos + 1
                    /\ runs'[r].currentIndex = run.currentIndex
               ELSE /\ runs'[r].pc = "armed"
                    /\ runs'[r].currentIndex = run.currentIndex + batchSize]_vars

\* C4 witness: in a batch of two the first app failed and the second was still
\* looked up and written
C4_Witness ==
  \E r \in RunIds :
    /\ batchSize = 2 /\ runs[r].pc = "armed"
    /\ runs[r].log = <<1, 2>> /\ runs[r].caught = 1 /\ runs[r].writes = 1
    /\ \A q \in ReqIds : reqs[q].pc = "idle"
    /\ repo[1].lastStoreUpdate = NoTime
    /\ repo[2].lastStoreUpdate # NoTime

\* C5: the stored lastStoreUpdate of an app never decreases
C5_StampNeverDecreases ==
  [][\A id \in DOMAIN repo :
       repo'[id].lastStoreUpdate >= repo[id].lastStoreUpdate]_vars

(***************************************************************************)
(* Properties of get-app (checked under Spec).                             *)
(***************************************************************************)
\* the staleness threshold in force, in minutes
TimeToUpdate ==
  IF configurations = <<>> THEN DefaultTimeToUpdate ELSE configurations[1].value

\* the record has no lastStoreUpdate, or its age is at least the threshold
AbsentOrOld(rec) ==
  \/ rec.lastStoreUpdate = NoTime
  \/ clock - rec.lastStoreUpdate >= TimeToUpdate * TicksPerMinute

\* C10: on reading an app the store lookups are invoked if and only if the
\* record's lastStoreUpdate is absent or its age is at least the staleness
\* threshold; for a younger record no lookup and no write of the app happens
C10_StaleGate ==
  /\ [][\A q \in ReqIds :
         (reqs[q].pc \in {"idle", "done"} /\ reqs'[q] # reqs[q] /\ reqs'[q].found) =>
           /\ reqs'[q].stale <=> AbsentOrOld(repo[reqs'[q].id])
           /\ reqs'[q].pc = "refresh" <=> reqs'[q].stale
           /\ repo' = repo]_vars
  /\ [][\A q \in ReqIds :
         (reqs[q].pc = "refresh" /\ reqs'[q] # reqs[q]) => reqs'[q].lookedUp]_vars
  /\ [](\A q \in ReqIds :
         /\ reqs[q].lookedUp => reqs[q].stale
         /\ reqs[q].wrote => reqs[q].lookedUp
         /\ reqs[q].pc = "refresh" => (reqs[q].stale /\ ~reqs[q].lookedUp))

\* C10 witness: with the default threshold, a record stamped 59.5 minutes ago was
\* read and answered without lookup
C10_Witness ==
  \E q \in ReqIds :
    /\ configurations = <<>>
    /\ reqs[q].pc = "done" /\ reqs[q].found /\ ~reqs[q].stale
    /\ reqs[q].status = 200 /\ ~reqs[q].lookedUp
    /\ repo[reqs[q].id].lastStoreUpdate = FirstTick
    /\ clock = FirstTick + DefaultTimeToUpdate * TicksPerMinute - 1

(***************************************************************************)
(* Failures of the refresh of get-app (checked under Spec).                *)
(***************************************************************************)
\* C11: a get-app request that read the app and whose enrichment failed (the merge
\* block threw on the fetched metadata, or the write of the refreshed record was
\* rejected) is answered 200, not 500
C11_EnrichmentFailureStillReads ==
  \A q \in ReqIds :
    (reqs[q].pc = "done" /\ reqs[q].found /\ reqs[q].lookedUp /\ ~reqs[q].wrote)
      => reqs[q].status = 200

(***************************************************************************)
(* Properties of the bulk sync await by await (checked under SyncSpec).    *)
(***************************************************************************)
\* C12: when the write of a merged app is rejected during bulk sync, the table is
\* left as it was, the error stays inside the body of that app (the answer to the
\* trigger does not change, the run goes on), and the run moves to the next app of
\* the slice, whose lookup it issues, or after the last app of the slice advances
\* the cursor and schedules the next tick
C12_WriteFailureIsolated ==
  [][\A r \in RunIds :
       WriteAnswer(r, FALSE) =>
         LET run == runs[r]
             slice == Slice(run.allApps, run.currentIndex)
         IN /\ repo' = repo
            /\ runs'[r].log = Append(run.log, slice[run.pos].id)
            /\ runs'[r].caught = run.caught + 1
            /\ runs'[r].writes = run.writes
            /\ runs'[r].resp = run.resp
            /\ runs'[r].allApps = run.allApps
            /\ IF run.pos < Len(slice)
               THEN /\ runs'[r].pc = "inbatch"
                    /\ runs'[r].pos = run.pos + 1
                    /\ runs'[r].currentIndex = run.currentIndex
                    /\ runs'[r].inflight = <<LookupCall(slice[run.pos + 1], "appstore")>>
               ELSE /\ runs'[r].pc = "armed"
                    /\ runs'[r].currentIndex = run.currentIndex + batchSize
                    /\ runs'[r].inflight = <<>>]_vars

\* C12 witness: in a batch of two of the setIntervalAsync build (whose merge block
\* cannot throw) the write of the first app was rejected, its record is as it was
\* added, and the second app was looked up and written
C12_Witness ==
  \E r \in RunIds :
    /\ variant = "setIntervalAsync" /\ batchSize = 2
    /\ {1, 2} \subseteq DOMAIN repo
    /\ runs[r].pc = "armed" /\ runs[r].log = <<1, 2>>
    /\ runs[r].caught = 1 /\ runs[r].writes = 1
    /\ repo[1] = NewApp(1)
    /\ repo[2].androidVersion = AndroidMeta(1).version

\* C13: when the initial read of the whole catalog fails, the run is aborted before
\* any timer is armed: the run never issues a lookup or a write and never changes
\* again, the admin request is answered 500 and the cron callback gets no answer
\* to send (it logs the error)
C13_CatalogFetchErrorAborts ==
  /\ [][\A r \in RunIds :
         /\ updateAppsFromStores(r, FALSE) =>
              (runs'[r].pc = "failed" /\ runs'[r].resp = 500 /\ repo' = repo)
         /\ StartRun(r, FALSE) =>
              (runs'[r].pc = "failed" /\ runs'[r].resp = 0 /\ repo' = repo)
         /\ runs[r].pc = "failed" => runs'[r] = runs[r]]_vars
  /\ [](\A r \in RunIds :
         runs[r].pc = "failed" =>
           /\ runs[r].fired = 0 /\ runs[r].ticks = 0
           /\ runs[r].lookups = 0 /\ runs[r].writes = 0
           /\ runs[r].inflight = <<>> /\ runs[r].log = <<>>
           /\ runs[r].resp = IF runs[r].trigger = "admin" THEN 500 ELSE 0)

\* C13 witness: the admin request found a table with apps unreadable and was
\* answered 500
C13_Witness ==
  \E r \in RunIds :
    /\ runs[r].pc = "failed" /\ runs[r].trigger = "admin" /\ runs[r].resp = 500
    /\ DOMAIN repo # {}

\* C14: the admin request is answered 200 in the step that starts the run, when no
\* lookup has answered and no app has been processed or written, and with a
\* catalog that is not empty before the run has ended; the answer, once given,
\* never changes, and an app that fails later leaves it alone and leaves the run
\* going
C14_AckOnStart ==
  /\ [][\A r \in RunIds :
         /\ updateAppsFromStores(r, TRUE) =>
              /\ runs'[r].resp = 200
              /\ runs'[r].log = <<>> /\ runs'[r].lookups = 0 /\ runs'[r].writes = 0
              /\ runs'[r].ticks <= 1
              /\ Len(runs'[r].allApps) > 0 => runs'[r].pc \in {"armed", "inbatch"}
         /\ runs[r].resp # 0 => runs'[r].resp = runs[r].resp
         /\ runs'[r].caught > runs[r].caught =>
              (runs'[r].resp = runs[r].resp /\ runs'[r].pc \in {"inbatch", "armed"})]_vars
  /\ [](\A r \in RunIds :
         (runs[r].trigger = "admin" /\ Started(runs[r])) => runs[r].resp = 200)

\* C14 witness: a run the admin request started and that was answered 200 has
\* ended after two ticks with an app that failed
C14_Witness ==
  \E r \in RunIds :
    /\ runs[r].trigger = "admin" /\ runs[r].resp = 200
    /\ runs[r].pc = "done" /\ runs[r].ticks = 2
    /\ runs[r].caught >= 1 /\ Len(runs[r].log) = 2

\* C15: within one run at most one call is outstanding at any moment and it belongs
\* to the app the loop is at; the first lookup of the next app is issued only in
\* the step that ends the processing of the app before it; and a batch starts only
\* when no batch of the run is in progress
C15_OneAppAtATime ==
  /\ [](\A r \in RunIds :
         LET run == runs[r]
         IN /\ Len(run.inflight) <= 1
            /\ run.pc # "inbatch" => run.inflight = <<>>
            /\ run.pc = "inbatch" =>
                 /\ Len(run.inflight) = 1
                 /\ run.inflight[1].id = CurrentApp(run).id
                 /\ run.phase = "ios" => run.inflight[1].op = "appstore"
                 /\ run.phase = "android" => run.inflight[1].op = "playstore"
                 /\ run.phase = "write" => run.inflight[1].op = "write")
  /\ [][\A r \in RunIds :
         /\ (runs[r].inflight # <<>> /\ runs'[r].inflight # <<>>
               /\ runs'[r].inflight[1].id # runs[r].inflight[1].id)
              => /\ runs'[r].inflight[1].op = "appstore"
                 /\ runs'[r].log = Append(runs[r].log, runs[r].inflight[1].id)
         /\ runs'[r].ticks > runs[r].ticks =>
              (runs[r].pc \in {"idle", "armed"} /\ runs[r].inflight = <<>>)]_vars

\* C15 witness: in a batch of two the first app has been processed and the write
\* of the second is the only call outstanding
C15_Witness ==
  \E r \in RunIds :
    /\ batchSize = 2 /\ runs[r].pc = "inbatch" /\ runs[r].pos = 2
    /\ runs[r].phase = "write" /\ runs[r].log = <<1>>
    /\ runs[r].inflight = <<WriteCall(runs[r].allApps[2])>>

\* the ids of the snapshot of a run
SnapshotIds(run) == {run.allApps[k].id : k \in 1..Len(run.allApps)}

\* C16: a run takes the apps of the table when it starts and works on those only:
\* its snapshot never changes, every call it issues is for an app of the snapshot,
\* a step of the run leaves the records of all other apps alone, and its number of
\* processing ticks is bounded by the size of the snapshot whatever is added to
\* the table meanwhile
C16_SnapshotOnly ==
  /\ [][\A r \in RunIds :
         /\ (runs[r].pc = "idle" /\ Started(runs'[r]))
              => runs'[r].allApps = getAllApps(repo)
         /\ Started(runs[r]) => runs'[r].allApps = runs[r].allApps
         /\ runs'[r] # runs[r] =>
              \A id \in (DOMAIN repo) \cup (DOMAIN repo') :
                id \notin SnapshotIds(runs'[r]) =>
                  (id \in DOMAIN repo /\ id \in DOMAIN repo' /\ repo'[id] = repo[id])]_vars
  /\ [](\A r \in RunIds :
         LET run == runs[r]
         IN /\ run.ticks <= Ceil(Len(run.allApps), batchSize)
            /\ run.fired <= Ceil(Len(run.allApps), batchSize) + 1
            /\ run.log = SubSeq(Ids(run.allApps), 1, Len(run.log))
            /\ run.lookups <= 2 * Len(run.allApps)
            /\ run.writes <= Len(run.allApps)
            /\ \A k \in 1..Len(run.inflight) : run.inflight[k].id \in SnapshotIds(run))

\* C16 witness: a run that started with one app in the table has ended after one
\* processing tick; the app added meanwhile is as it was added
C16_Witness ==
  \E r \in RunIds :
    /\ runs[r].pc = "done" /\ runs[r].log = <<1>> /\ runs[r].ticks = 1
    /\ runs[r].writes = 1
    /\ SnapshotIds(runs[r]) = {1}
    /\ 2 \in DOMAIN repo
    /\ repo[2] = NewApp(2)

\* C17: a lookup that never answers does not stall the run: with timers that fire
\* and writes that answer, a run that is in a batch gets out of every lookup it
\* awaits and in the end reaches the tick that ends it
C17_HungLookupDoesNotStall ==
  \A r \in RunIds :
    /\ (runs[r].phase \in {"ios", "android", "hung"}) ~> (runs[r].phase \in {"write", "none"})
    /\ (runs[r].pc = "inbatch") ~> (runs[r].pc = "done")

\* C18: the App Store lookup is issued only for an app that has an iosAppId and the
\* Play Store lookup only for an app that has an androidAppId; the record of an
\* app without iosAppId has none of the iOS enrichment fields, and the record of
\* an app without androidAppId none of the Android ones
C18_LookupOnlyWithPlatformId ==
  /\ \A r \in RunIds :
       \A k \in 1..Len(runs[r].inflight) :
         LET call == runs[r].inflight[k]
             app == CHOOSE a \in {runs[r].allApps[j] : j \in 1..Len(runs[r].allApps)} :
                      a.id = call.id
         IN /\ call.op = "appstore" => Truthy(app.iosAppId)
            /\ call.op = "playstore" => Truthy(app.androidAppId)
  /\ \A id \in DOMAIN repo :
       /\ ~Truthy(repo[id].iosAppId) =>
            /\ repo[id].iosVersion = Undef /\ repo[id].iosLink = Undef
            /\ repo[id].iosScreenshots = NoList /\ repo[id].iosRelease = UndefStr
       /\ ~Truthy(repo[id].androidAppId) =>
            /\ repo[id].androidVersion = Undef /\ repo[id].androidLink = Undef
            /\ repo[id].androidScreenshots = NoList

\* C19: whatever the Play Store lookup of an app answers (no result, or details
\* that lack the date the merge reads), metadata the App Store lookup found for
\* the app is merged and the write of the merged record is issued in that pass
C19_PlatformFailureIsolated ==
  [][\A r \in RunIds, a \in AndroidAnswers :
       (AndroidAnswer(r, a) /\ runs[r].ios # Null) =>
         /\ runs'[r].phase = "write"
         /\ runs'[r].caught = runs[r].caught
         /\ runs'[r].item # <<>>
         /\ runs'[r].item[1].iosVersion = runs[r].ios[1].version
         /\ runs'[r].item[1].lastStoreUpdate = clock]_vars

\* C20: the sync never creates a record: a step of a run leaves the set of ids of
\* the table as it is, and the write of an app whose id is no longer in the table
\* fails (it is caught at that app) and the run goes on
C20_NeverCreatesRecord ==
  [][\A r \in RunIds :
       runs'[r] # runs[r] =>
         /\ DOMAIN repo' = DOMAIN repo
         /\ (runs[r].phase = "write" /\ runs[r].item[1].id \notin DOMAIN repo) =>
              /\ runs'[r].caught = runs[r].caught + 1
              /\ runs'[r].writes = runs[r].writes
              /\ runs'[r].pc \in {"inbatch", "armed"}]_vars

(***************************************************************************)
(* Properties of the middleware (checked under AuthSpec).                  *)
(***************************************************************************)
\* the header is missing, is not "Bearer <token>", or its token fails verification
BadCredentials(header) ==
  \/ header = NoHeader
  \/ SplitSpace(header)[1] # <<"Bearer">>
  \/ Len(SplitSpace(header)) < 2
  \/ SplitSpace(header)[2] = <<>>
  \/ ~verifyIdToken(SplitSpace(header)[2]).ok

\* C21: a request whose Authorization header is missing, is not of the form
\* "Bearer <token>" or carries a token that fails verification is answered 403 by
\* authenticator and does not get past it, whatever session the request has
C21_BadCredentialsRefused ==
  (http.stage # "idle" /\ BadCredentials(http.header)) =>
    (http.stage = "rejected" /\ http.status = 403)

\* the session has both a user and an authorization
CompleteSession == session.user # NoEmail /\ Truthy(session.authorization)

\* C28: authorityValidator calls next() only for a session that has both a user
\* and an authorization, the authorization being ADMIN or the authority the
\* endpoint requires; a request without a complete session is answered 401 and
\* one with another authorization 403, and neither reaches the controller
C28_AuthorityValidator ==
  [][(http.stage = "authenticated" /\ http' # http) =>
       LET allowed == /\ CompleteSession
                      /\ session.authorization \in {"ADMIN", http.required}
       IN /\ http'.stage = "controller" <=> allowed
          /\ allowed => http'.status = 0
          /\ ~CompleteSession => (http'.stage = "rejected" /\ http'.status = 401)
          /\ (CompleteSession /\ ~allowed) =>
               (http'.stage = "rejected" /\ http'.status = 403)
          /\ session' = session /\ users' = users]_vars

\* C28 witness: an ADMIN reached the controller of an endpoint that requires USER
C28_Witness ==
  /\ http.stage = "controller" /\ http.required = "USER"
  /\ session.user = Ann /\ session.authorization = "ADMIN"

\* C23: the cursor of a bulk sync run never passes the end of the snapshot:
\* 0 <= currentIndex <= N in every state, a final slice shorter than the batch
\* size included
C23_CursorWithinSnapshot ==
  \A r \in DOMAIN runs :
    runs[r].currentIndex >= 0 /\ runs[r].currentIndex <= Len(runs[r].allApps)

\* C24: no bulk sync pass and no updateMultipleApps call changes the id or the
\* name of a stored record, whatever name the body of update-app carries
C24_IdAndNameKept ==
  [][\A id \in (DOMAIN repo) \cap (DOMAIN repo') :
       /\ repo'[id].id = repo[id].id
       /\ repo'[id].name = repo[id].name]_vars

\* C24 witness: an update-app whose body carried another name was applied to a
\* record that a bulk sync pass has written as well
C24_Witness ==
  /\ upd.status = 200 /\ upd.body.name = "renamed" /\ upd.body.city = "city1"
  /\ upd.body.id \in DOMAIN repo
  /\ repo[upd.body.id].city = "city1"
  /\ repo[upd.body.id].lastStoreUpdate # NoTime

\* C29: the write that ends the processing of an app in a bulk sync run leaves
\* the city of every stored record as it is, also a city that update-app set
\* after the run took its snapshot
C29_PersistKeepsCity ==
  [][\A r \in RunIds, writeOk \in BOOLEAN :
       WriteAnswer(r, writeOk) =>
         \A id \in (DOMAIN repo) \cap (DOMAIN repo') : repo'[id].city = repo[id].city]_vars

\* C22: appValidationBodySchema accepts the valid data of its test, and rejects
\* with a ValidationError every body that lacks id, name, city, country, iosLink
\* or androidLink, or whose iosLink or androidLink is not a URL
C22_SchemaContract ==
  form.stage = "validated" =>
    /\ form.body = ValidData => form.result = "valid"
    /\ (\/ \E f \in {"id", "name", "city", "country"} : form.body[f] = Undef
        \/ \E f \in LinkFields : form.body[f] = NoLink \/ ~IsUrl(form.body[f]))
         => form.result = "ValidationError"

\* C30: once editConfigurationValue(key, v) has succeeded, getConfigValue(key, d)
\* returns v in the same process
C30_EditTakesEffect ==
  cfg.status = 200 => getConfigValue(cfg.key, 0) = cfg.value

\* the last n entries of a list
LastN(list, n) == SubSeq(list, Len(list) - Min(n, Len(list)) + 1, Len(list))

\* C25: the recently-viewed queue read after any sequence of views has no
\* duplicate, has at most the configured number of entries, ends with the app
\* viewed last, and lists the entries in the order of their last view, the
\* oldest having been dropped
C25_RecentlyViewedQueue ==
  view.read =>
    LET limit == getConfigValue("NUMBER_OF_USER_RECENTLY_VIEWED_APPS", DefaultRecentlyViewed)
    IN /\ \A i, j \in DOMAIN view.list : view.list[i] = view.list[j] => i = j
       /\ Len(view.list) <= limit
       /\ view.list[Len(view.list)] = view.last
       /\ view.list = LastN(view.seen, limit)

\* C26: a toggle changes the favorites by exactly its item, removed if it was
\* in the list and added if it was not, and leaves every other favorite as it
\* is, also when another toggle of the same user is in progress
C26_ToggleExactlyItsItem ==
  [][\A t \in ToggleIds :
       ToggleWrite(t, Ann) =>
         LET before == Elements(users[Ann].favorites)
             after == Elements(users'[Ann].favorites)
             item == togs[t].favoriteItem
         IN after = IF item \in before THEN before \ {item} ELSE before \cup {item}]_vars

\* C27: add-app never replaces a record: every stored record is the same after
\* any step of an add-app request, also when two requests for one id overlap
C27_AddNeverReplaces ==
  [][\A id \in DOMAIN repo : id \in DOMAIN repo' /\ repo'[id] = repo[id]]_vars

====
